---------------------------- MODULE Spec2Model ----------------------------
(***************************************************************************)
(* Model of the timed booking scheduler of gearay/dingpiao:                *)
(*   src/timed_booking.py  BookingTask, TimedBooking                       *)
(*   src/auto_booking.py   AutoBooking (the pipeline stages it drives)     *)
(*                                                                         *)
(* Threads: one caller thread (the public methods of TimedBooking), the    *)
(* timing loop threads (_worker_loop) and one thread per promotion         *)
(* (_execute_enhanced_booking / _execute_task).  Every read-then-write      *)
(* that the source performs without a lock is split at the place where     *)
(* another thread can run in between.                                      *)
(*                                                                         *)
(* Time is in seconds.  The clock only takes the values at which one of    *)
(* the comparisons of the source changes its outcome.                      *)
(***************************************************************************)
EXTENDS Integers, Sequences, FiniteSets, TLC

VARIABLES
    now,            \* datetime.now()
    task,           \* the BookingTask objects, by created_at.isoformat()
    tasks,          \* TimedBooking.tasks: the collection, a list of task keys
    running,        \* TimedBooking.running
    worker_thread,  \* TimedBooking.worker_thread: 0 (None) or a worker slot
    workers,        \* the _worker_loop threads
    active_tasks,   \* TimedBooking.active_tasks: its keys
    contexts,       \* the threads spawned for tasks, in spawn order
    auto_booking,   \* the single AutoBooking object: status, error_message
    caller,         \* the caller thread: idle, or blocked in stop_scheduler's join
    last,           \* the last public method the caller thread completed
    ghost,          \* history: callbacks and Agent calls per task
    limit,          \* the bounds of the behaviour, fixed by the initial state
    handler         \* the ErrorHandler object and the last handle_error call

vars == << now, task, tasks, running, worker_thread, workers, active_tasks,
           contexts, auto_booking, caller, last, ghost, limit, handler >>

---------------------------------------------------------------------------
(* Program constants (seconds).                                            *)

\* timedelta(minutes=5): BookingTask.pre_search_start_time
Lead == 300
\* timedelta(days=30): validate_task_time
Horizon == 2592000
\* timedelta(hours=24): _cleanup_tasks
Retention == 86400

(* Bounds of the model.                                                    *)

\* tasks ever created by add_task (Spec, SpecRace)
MaxTasks == 1
\* _worker_loop threads alive at the same time (Spec, SpecPair)
MaxWorkers == 1
\* public methods the caller thread invokes in one behaviour
MaxCalls == 4
\* _worker_loop threads alive at the same time (SpecRace)
RaceWorkers == 2
\* tasks ever created by add_task (SpecSort)
SortSize == 3
\* tasks ever created by add_task (SpecPair)
PairTasks == 2
\* largest max_retries a caller passes
MaxRetries == 2
\* max_retries of the task (SpecRetry)
RetryAttempts == 4
\* public methods the caller thread invokes in one behaviour (SpecRetry)
RetryCalls == 3
\* public methods the caller thread invokes in one behaviour (SpecShare)
ShareCalls == 3
\* public methods the caller thread invokes in one behaviour (SpecSort)
SortCalls == 4
\* public methods the caller thread invokes in one behaviour (SpecLate)
LateCalls == 2
\* public methods the caller thread invokes in one behaviour (SpecKeep)
KeepCalls == 2
\* public methods the caller thread invokes in one behaviour (SpecStage)
StageCalls == 2
\* handle_error calls in one behaviour (SpecHandler)
MaxErrors == 2
\* public methods the caller thread invokes in one behaviour (SpecWarm)
WarmCalls == 3
\* seconds up to start_time of a task added inside the last 10 s (SpecWarm)
Countdown == 5

---------------------------------------------------------------------------
(* Inputs.                                                                 *)

Trains == {"G1", "G2"}

\* the add_task calls a caller makes: (train, start_time - now, max_retries, priority).
\* The start times: due, inside the lead, beyond the lead, the last instant
\* validate_task_time accepts, the first one beyond it.
Requests ==
    { << "G1", 0, 1, 0 >>, << "G1", 1, MaxRetries, 1 >>, << "G2", Lead + 1, 1, 0 >>,
      << "G2", Horizon, 1, 0 >>, << "G1", Horizon + 1, 1, 1 >> }
RaceRequests ==
    { << "G1", 1, 1, 0 >> }
RetryRequests ==
    { << "G1", 1, RetryAttempts, 0 >> }
\* start times inside the pre-warm phase: in the last 10 s, and in the second
\* in which the 30 s tier finds time_remaining % 30 < 1
WarmRequests ==
    { << "G1", Countdown, MaxRetries, 0 >>, << "G1", 270, 1, 0 >> }
\* start times a day and more after the call
KeepRequests ==
    { << "G2", Retention + 1, 1, 0 >>, << "G1", Retention + Lead + 1, MaxRetries, 0 >> }
\* one task that is due when it is added, with two attempts or with none
\* (add_task accepts every max_retries)
StageRequests ==
    { << "G1", 0, MaxRetries, 0 >>, << "G1", 0, 0, 0 >> }
\* two tasks of two trains, both due when they are added
ShareRequests ==
    { << "G1", 0, 1, 0 >>, << "G2", 0, 1, 0 >> }
\* tasks of different priorities, not yet due for the pre-search
SortRequests ==
    { << "G1", Lead + 1, 1, 0 >>, << "G2", Lead + 1, 1, 1 >>, << "G1", Lead + 2, 1, 1 >> }
\* tasks added less than the lead before start_time: at start_time, or 1 s
\* before it
LateRequests ==
    { << "G1", 0, 1, 0 >>, << "G1", 1, MaxRetries, 0 >> }
PairRequests ==
    { << "G1", 0, 1, 0 >>, << "G1", Lead + 1, 1, 1 >> }

\* the ticket_passengers of the TicketInfo a caller builds for a train: the
\* one for G2 is built with the default, field(default_factory=list)
TicketPassengers ==
    [ G1 |-> << "p1", "p2" >>, G2 |-> << >> ]

\* TicketInfo(train_info, ticket_passengers); __post_init__ raises ValueError
\* only for a train_info that is empty
TicketInfo(train_info, ticket_passengers) ==
    IF train_info = "" THEN "ValueError"
    ELSE [ train_info |-> train_info, ticket_passengers |-> ticket_passengers ]

\* created_at.isoformat() of the n-th task created
IsoNames == << "t1", "t2", "t3", "t4", "t5", "t6" >>
Iso(n) == IsoNames[n]
Identifiers == Trains \cup {Iso(n) : n \in 1..2}

---------------------------------------------------------------------------
(* BookingTask                                                             *)

\* BookingTask.__init__
BookingTask(key, train, start_time, max_retries, priority) ==
    [ created_at            |-> key,
      created_time          |-> now,
      train_number          |-> train,
      start_time            |-> start_time,
      pre_search_start_time |-> start_time - Lead,
      max_retries           |-> max_retries,
      priority              |-> priority,
      status                |-> "pending",
      error_message         |-> "",
      retry_count           |-> 0,
      result                |-> "None",
      search_started        |-> FALSE,
      booking_attempted     |-> FALSE ]

---------------------------------------------------------------------------
(* The flat records: to_dict and from_dict of BookingTask and of the       *)
(* classes of models.py.  A dict is a function on its keys; an Enum member *)
(* is its name; the values of the enums and the default texts, which are   *)
(* outside ASCII in the source, are written as ASCII tokens; None is the   *)
(* string "None".                                                          *)

\* SeatType: the value of every member
SeatTypeValue ==
    [ SECOND_CLASS          |-> "seat:second",
      FIRST_CLASS           |-> "seat:first",
      BUSINESS_CLASS        |-> "seat:business",
      HARD_SEAT             |-> "seat:hard",
      SOFT_SEAT             |-> "seat:soft",
      NO_SEAT               |-> "seat:none",
      HARD_SLEEPER          |-> "sleeper:hard",
      SOFT_SLEEPER          |-> "sleeper:soft",
      DYNAMIC_SLEEPER       |-> "sleeper:dynamic",
      FIRST_SLEEPER         |-> "sleeper:first",
      SECOND_SLEEPER        |-> "sleeper:second",
      ADVANCED_SOFT_SLEEPER |-> "sleeper:advanced" ]

\* BunkType: the value of every member
BunkTypeValue ==
    [ UPPER_BUNK  |-> "bunk:upper",
      MIDDLE_BUNK |-> "bunk:middle",
      LOWER_BUNK  |-> "bunk:lower",
      NO_BUNK     |-> "bunk:no" ]

\* SeatType(value): the member with the value
SeatType(value) ==
    CHOOSE member \in DOMAIN SeatTypeValue : SeatTypeValue[member] = value

\* BunkType(value): the member with the value
BunkType(value) ==
    CHOOSE member \in DOMAIN BunkTypeValue : BunkTypeValue[member] = value

\* Passenger(name, id_number, passenger_type) and its __post_init__
Passenger(name, id_number, passenger_type) ==
    IF name = "" THEN "ValueError"
    ELSE [ name |-> name, id_number |-> id_number,
           passenger_type |-> IF passenger_type = "" THEN "adult" ELSE passenger_type ]

\* TicketPassenger(passenger, seat_type, bunk_type, ticket_type) and its
\* __post_init__
TicketPassenger(passenger, seat_type, bunk_type, ticket_type) ==
    [ passenger   |-> passenger,
      seat_type   |-> IF seat_type = "None" THEN "SECOND_CLASS" ELSE seat_type,
      bunk_type   |-> bunk_type,
      ticket_type |-> IF ticket_type = "" THEN "adult ticket" ELSE ticket_type ]

\* TicketPassenger.to_dict: the key bunk_type is written only for a bunk
TicketPassengerToDict(tp) ==
    LET result == [ name           |-> tp.passenger.name,
                    id_number      |-> tp.passenger.id_number,
                    passenger_type |-> tp.passenger.passenger_type,
                    ticket_type    |-> tp.ticket_type,
                    seat_type      |-> SeatTypeValue[tp.seat_type] ]
    IN  IF tp.bunk_type # "None"
        THEN result @@ ("bunk_type" :> BunkTypeValue[tp.bunk_type])
        ELSE result

\* data.get(key, default)
Get(data, key, default) == IF key \in DOMAIN data THEN data[key] ELSE default

\* TicketPassenger.from_dict
TicketPassengerFromDict(data) ==
    LET passenger == Passenger(data["name"], Get(data, "id_number", ""),
                               Get(data, "passenger_type", "adult"))
        seat_type == SeatType(Get(data, "seat_type", "seat:second"))
        bunk_type == IF "bunk_type" \in DOMAIN data
                     THEN BunkType(data["bunk_type"]) ELSE "None"
    IN  TicketPassenger(passenger, seat_type, bunk_type,
                        Get(data, "ticket_type", "adult ticket"))

\* TrainInfo of a train: seven strings
TrainInfo(train_number) ==
    [ train_number      |-> train_number,
      departure_station |-> "from",
      arrival_station   |-> "to",
      departure_time    |-> "08:00",
      arrival_time      |-> "12:00",
      duration          |-> "04:00",
      date              |-> "day" ]

\* TrainInfo.to_dict
TrainInfoToDict(train_info) ==
    [ train_number      |-> train_info.train_number,
      departure_station |-> train_info.departure_station,
      arrival_station   |-> train_info.arrival_station,
      departure_time    |-> train_info.departure_time,
      arrival_time      |-> train_info.arrival_time,
      duration          |-> train_info.duration,
      date              |-> train_info.date ]

\* TrainInfo.from_dict: cls(**data)
TrainInfoFromDict(data) ==
    [ train_number      |-> data["train_number"],
      departure_station |-> data["departure_station"],
      arrival_station   |-> data["arrival_station"],
      departure_time    |-> data["departure_time"],
      arrival_time      |-> data["arrival_time"],
      duration          |-> data["duration"],
      date              |-> data["date"] ]

\* TicketInfo.to_dict
TicketInfoToDict(ticket_info) ==
    [ train_info |-> TrainInfoToDict(ticket_info.train_info),
      passengers |-> [ i \in DOMAIN ticket_info.ticket_passengers |->
                         TicketPassengerToDict(ticket_info.ticket_passengers[i]) ] ]

\* TicketInfo.from_dict
TicketInfoFromDict(data) ==
    [ train_info        |-> TrainInfoFromDict(data["train_info"]),
      ticket_passengers |-> [ i \in DOMAIN data["passengers"] |->
                                TicketPassengerFromDict(data["passengers"][i]) ] ]

\* datetime.isoformat(): the date (as a day number), the hour, the minute
\* and the second
IsoFormat(t) ==
    << t \div 86400, (t % 86400) \div 3600, (t % 3600) \div 60, t % 60 >>

\* datetime.fromisoformat(text)
FromIsoFormat(text) ==
    text[1] * 86400 + text[2] * 3600 + text[3] * 60 + text[4]

\* BookingTask.to_dict
ToDict(t) ==
    [ ticket_info           |-> TicketInfoToDict(t.ticket_info),
      start_time            |-> IsoFormat(t.start_time),
      pre_search_start_time |-> IsoFormat(t.pre_search_start_time),
      max_retries           |-> t.max_retries,
      priority              |-> t.priority,
      created_at            |-> IsoFormat(t.created_at),
      status                |-> t.status,
      error_message         |-> t.error_message,
      retry_count           |-> t.retry_count,
      result                |-> t.result,
      search_started        |-> t.search_started,
      booking_attempted     |-> t.booking_attempted ]

\* BookingTask.__init__ at time t, as an object with its ticket_info
NewTask(ticket_info, start_time, max_retries, priority, t) ==
    [ ticket_info           |-> ticket_info,
      start_time            |-> start_time,
      pre_search_start_time |-> start_time - Lead,
      max_retries           |-> max_retries,
      priority              |-> priority,
      created_at            |-> t,
      status                |-> "pending",
      error_message         |-> "",
      retry_count           |-> 0,
      result                |-> "None",
      search_started        |-> FALSE,
      booking_attempted     |-> FALSE ]

\* from_dict of the records written before search_started and
\* booking_attempted existed
FromDictLegacy(data) ==
    [ NewTask(TicketInfoFromDict(data["ticket_info"]),
              FromIsoFormat(data["start_time"]),
              data["max_retries"], data["priority"], now)
        EXCEPT !.created_at    = FromIsoFormat(data["created_at"]),
               !.status        = data["status"],
               !.error_message = data["error_message"],
               !.retry_count   = data["retry_count"],
               !.result        = data["result"] ]

\* BookingTask.from_dict
FromDict(data) ==
    [ NewTask(TicketInfoFromDict(data["ticket_info"]),
              FromIsoFormat(data["start_time"]),
              data["max_retries"], data["priority"], now)
        EXCEPT !.created_at        = FromIsoFormat(data["created_at"]),
               !.status            = data["status"],
               !.error_message     = data["error_message"],
               !.retry_count       = data["retry_count"],
               !.result            = data["result"],
               !.search_started    = Get(data, "search_started", FALSE),
               !.booking_attempted = Get(data, "booking_attempted", FALSE) ]

\* the TicketPassenger objects a caller builds for the passengers
TicketPassengerOf ==
    [ p1 |-> TicketPassenger(Passenger("p1", "id1", "adult"),
                             "SECOND_CLASS", "None", "adult ticket"),
      p2 |-> TicketPassenger(Passenger("p2", "", ""),
                             "HARD_SLEEPER", "LOWER_BUNK", "") ]

\* the BookingTask object of key k
TaskObject(k) ==
    LET names == TicketPassengers[task[k].train_number]
    IN  [ ticket_info |->
             [ train_info        |-> TrainInfo(task[k].train_number),
               ticket_passengers |-> [ i \in DOMAIN names |-> TicketPassengerOf[names[i]] ] ],
          start_time            |-> task[k].start_time,
          pre_search_start_time |-> task[k].pre_search_start_time,
          max_retries           |-> task[k].max_retries,
          priority              |-> task[k].priority,
          created_at            |-> task[k].created_time,
          status                |-> task[k].status,
          error_message         |-> task[k].error_message,
          retry_count           |-> task[k].retry_count,
          result                |-> task[k].result,
          search_started        |-> task[k].search_started,
          booking_attempted     |-> task[k].booking_attempted ]

\* validate_task_time(start_time), evaluated at time t
ValidateTaskTime(start_time, t) ==
    IF start_time <= t THEN FALSE
    ELSE IF start_time > t + Horizon THEN FALSE
    ELSE TRUE

\* key=lambda t: (-t.priority, t.start_time), compared as Python compares tuples;
\* h is the task heap the keys are read from
SortKeyLess(h, a, b) ==
    \/ -h[a].priority < -h[b].priority
    \/ /\ h[a].priority = h[b].priority
       /\ h[a].start_time < h[b].start_time

RECURSIVE InsertSorted(_, _, _)
\* x goes behind every element that does not sort after it: list.sort is stable
InsertSorted(h, x, s) ==
    IF s = << >> THEN << x >>
    ELSE IF SortKeyLess(h, x, Head(s)) THEN << x >> \o s
    ELSE << Head(s) >> \o InsertSorted(h, x, Tail(s))

RECURSIVE SortInto(_, _, _)
SortInto(h, s, acc) ==
    IF s = << >> THEN acc
    ELSE SortInto(h, Tail(s), InsertSorted(h, Head(s), acc))

\* self.tasks.sort(key=lambda t: (-t.priority, t.start_time))
SortTasks(h, s) == SortInto(h, s, << >>)

---------------------------------------------------------------------------
(* Helpers on sequences and on the state.                                  *)

RECURSIVE SelectKeys(_, _)
\* [x for x in s if Keep(x)], with Keep given as the set of kept elements
SelectKeys(s, keep) ==
    IF s = << >> THEN << >>
    ELSE IF Head(s) \in keep THEN << Head(s) >> \o SelectKeys(Tail(s), keep)
    ELSE SelectKeys(Tail(s), keep)

\* s.pop(i)
Pop(s, i) == [ j \in 1..(Len(s) - 1) |-> IF j < i THEN s[j] ELSE s[j + 1] ]

InCollection(k) == \E i \in 1..Len(tasks) : tasks[i] = k

\* index of the first element of s that is in the set m, 0 if there is none
FirstIndex(s, m) ==
    IF \E i \in 1..Len(s) : s[i] \in m
    THEN CHOOSE i \in 1..Len(s) : s[i] \in m /\ \A j \in 1..(i - 1) : s[j] \notin m
    ELSE 0

\* AutoBooking.cancel_booking
CancelBooking(ab) == [ ab EXCEPT !.status = "CANCELLED" ]

DeadWorker == [ pc |-> "dead", i |-> 0, current_time |-> 0, k |-> "", kept |-> << >> ]

IsAlive(w) == w # 0 /\ workers[w].pc # "dead"

FreeSlots == { w \in 1..limit.workers : workers[w].pc = "dead" }

\* threading.Thread(target=self._worker_loop).start(), in the lowest free slot
SpawnWorker(w) == [ workers EXCEPT ![w] = [ DeadWorker EXCEPT !.pc = "loop" ] ]

\* threading.Thread(target=fn, args=(task,)).start()
SpawnContext(k, fn) ==
    Append(contexts, [ task |-> k, fn |-> fn, pc |-> "begin", current_time |-> 0,
                       stage |-> 0, success |-> FALSE, wait |-> 0, ran |-> << >> ])

GhostInit == [ status_cb |-> 0, error_cb |-> 0, firing_cancel |-> FALSE,
               stages_after_cancel |-> 0, spawned |-> 0, attempts |-> 0,
               prewarmed |-> FALSE, revalidated |-> 0, refresh_at |-> -1,
               refresh_odd |-> FALSE, ended_at |-> -1 ]

Returned(op, arg, ret) ==
    last' = [ n |-> last.n + 1, op |-> op, arg |-> arg, ret |-> ret ]

CallerReady == caller = "idle" /\ last.n < limit.calls

---------------------------------------------------------------------------
(* State after TimedBooking.__init__                                       *)

\* no handle_error call has returned yet
NoCall == [ error |-> "", choice |-> "None", callback |-> "None", answer |-> "None" ]

Limits(t, w, c, r, late) ==
    [ tasks |-> t, workers |-> w, calls |-> c, requests |-> r, late |-> late,
      trace |-> FALSE ]

InitWith(lim) ==
    /\ limit = lim
    /\ now = 0
    /\ task = << >>
    /\ tasks = << >>
    /\ running = FALSE
    /\ worker_thread = 0
    /\ workers = [ w \in 1..lim.workers |-> DeadWorker ]
    /\ active_tasks = {}
    /\ contexts = << >>
    /\ auto_booking = [ status |-> "PENDING", error_message |-> "" ]
    /\ caller = "idle"
    /\ last = [ n |-> 0, op |-> "none", arg |-> "", ret |-> "None" ]
    /\ ghost = << >>
    /\ handler = [ user_callback |-> "None", error_history |-> << >>,
                   returned |-> NoCall ]

Init == InitWith(Limits(MaxTasks, MaxWorkers, MaxCalls, Requests, FALSE))

InitRace == InitWith(Limits(MaxTasks, RaceWorkers, MaxCalls, RaceRequests, FALSE))

InitRetry == InitWith(Limits(MaxTasks, MaxWorkers, RetryCalls, RetryRequests, TRUE))

InitWarm == InitWith(Limits(MaxTasks, MaxWorkers, WarmCalls, WarmRequests, FALSE))

InitShare == InitWith(Limits(PairTasks, MaxWorkers, ShareCalls, ShareRequests, FALSE))

InitSort == InitWith(Limits(SortSize, MaxWorkers, SortCalls, SortRequests, FALSE))

InitLate == InitWith(Limits(MaxTasks, MaxWorkers, LateCalls, LateRequests, FALSE))

\* one task that starts more than 24 hours after it is created; the time at
\* which it ends is recorded
InitKeep ==
    InitWith([ Limits(MaxTasks, MaxWorkers, KeepCalls, KeepRequests, FALSE)
                 EXCEPT !.trace = TRUE ])

\* one due task of two passengers; the stage calls of an attempt are recorded
InitStage ==
    InitWith([ Limits(MaxTasks, MaxWorkers, StageCalls, StageRequests, FALSE)
                 EXCEPT !.trace = TRUE ])

InitPair == InitWith(Limits(PairTasks, MaxWorkers, MaxCalls, PairRequests, FALSE))

---------------------------------------------------------------------------
(* The clock.                                                              *)

\* the tasks with a context that is inside a blocking Agent call of the
\* pre-warm phase (the login wait, the initial search), where the behaviour
\* follows the clock past start_time
Blocked ==
    IF limit.late
    THEN { contexts[c].task : c \in { x \in DOMAIN contexts :
                                        contexts[x].pc \in {"login", "presearch"} } }
    ELSE {}

\* the instants at which a time comparison of the source changes its outcome
\* (pre_search_start_time and start_time of every task; the end of the
\* retention window of a task that _cleanup_tasks would then remove), and
\* one second past start_time while a pre-warm Agent call has not returned
Instants ==
    UNION { { task[k].pre_search_start_time, task[k].start_time } : k \in DOMAIN task }
    \cup { task[k].created_time + Retention + 1 :
             k \in { x \in DOMAIN task : task[x].status \in {"completed", "failed"} } }
    \cup { task[k].start_time + 1 : k \in Blocked }

Tick(t) ==
    /\ t \in Instants
    /\ t > now
    /\ now' = t
    /\ UNCHANGED << task, tasks, running, worker_thread, workers, active_tasks,
                    contexts, auto_booking, caller, last, ghost, limit, handler >>

---------------------------------------------------------------------------
(* The caller thread: public methods of TimedBooking.                      *)

\* add_task that validates the start time and takes the last instant of the
\* schedule window for one beyond it
AddTaskWindowShort(train, start_time, max_retries, priority) ==
    /\ CallerReady
    /\ Cardinality(DOMAIN task) < limit.tasks
    /\ IF start_time <= now \/ start_time >= now + Horizon
       THEN /\ Returned("add_task", start_time, "InvalidScheduleError")
            /\ UNCHANGED << task, tasks, ghost >>
       ELSE LET key == Iso(Cardinality(DOMAIN task) + 1)
                heap == task @@ (key :> BookingTask(key, train, start_time,
                                                    max_retries, priority))
            IN  /\ task' = heap
                /\ tasks' = SortTasks(heap, Append(tasks, key))
                /\ ghost' = ghost @@ (key :> GhostInit)
                /\ Returned("add_task", start_time, key)
    /\ UNCHANGED << now, running, worker_thread, workers, active_tasks, contexts,
                    auto_booking, caller, limit, handler >>

\* add_task(ticket_info, start_time, max_retries, priority)
AddTask(train, start_time, max_retries, priority) ==
    /\ CallerReady
    /\ Cardinality(DOMAIN task) < limit.tasks
    /\ LET key == Iso(Cardinality(DOMAIN task) + 1)
           heap == task @@ (key :> BookingTask(key, train, start_time, max_retries, priority))
       IN  /\ task' = heap
           /\ tasks' = SortTasks(heap, Append(tasks, key))
           /\ ghost' = ghost @@ (key :> GhostInit)
           /\ Returned("add_task", start_time, key)
    /\ UNCHANGED << now, running, worker_thread, workers, active_tasks, contexts,
                    auto_booking, caller, limit, handler >>

\* add_task up to self.tasks.append(task): the timing loop can run before
\* the sort
AddTaskAppend(train, start_time, max_retries, priority) ==
    /\ CallerReady
    /\ Cardinality(DOMAIN task) < limit.tasks
    /\ LET key == Iso(Cardinality(DOMAIN task) + 1)
       IN  /\ task' = task @@ (key :> BookingTask(key, train, start_time,
                                                   max_retries, priority))
           /\ tasks' = Append(tasks, key)
           /\ ghost' = ghost @@ (key :> GhostInit)
    /\ caller' = "add_task"
    /\ UNCHANGED << now, running, worker_thread, workers, active_tasks, contexts,
                    auto_booking, last, limit, handler >>

\* add_task from self.tasks.sort(...) on: the list self.tasks names at that
\* moment is sorted in place, and the id of the new task is returned
AddTaskSort ==
    /\ caller = "add_task"
    /\ LET key == Iso(Cardinality(DOMAIN task))
       IN  /\ tasks' = SortTasks(task, tasks)
           /\ Returned("add_task", task[key].start_time, key)
    /\ caller' = "idle"
    /\ UNCHANGED << now, task, running, worker_thread, workers, active_tasks,
                    contexts, auto_booking, ghost, limit, handler >>

\* remove_task(task_id)
RemoveTask(task_id) ==
    /\ CallerReady
    /\ LET i == FirstIndex(tasks, { k \in DOMAIN task : task[k].created_at = task_id })
       IN  IF i = 0
           THEN /\ Returned("remove_task", task_id, FALSE)
                /\ UNCHANGED << tasks, auto_booking >>
           ELSE /\ auto_booking' = IF task[tasks[i]].status = "running"
                                   THEN CancelBooking(auto_booking) ELSE auto_booking
                /\ tasks' = Pop(tasks, i)
                /\ Returned("remove_task", task_id, TRUE)
    /\ UNCHANGED << now, task, running, worker_thread, workers, active_tasks,
                    contexts, caller, ghost, limit, handler >>

\* start_scheduler()
StartScheduler ==
    /\ CallerReady
    /\ IF running
       THEN UNCHANGED << running, worker_thread, workers >>
       ELSE /\ FreeSlots # {}
            /\ LET w == CHOOSE x \in FreeSlots : \A y \in FreeSlots : x <= y
               IN  /\ running' = TRUE
                   /\ workers' = SpawnWorker(w)
                   /\ worker_thread' = w
    /\ Returned("start_scheduler", "", "None")
    /\ UNCHANGED << now, task, tasks, active_tasks, contexts, auto_booking, caller, ghost, limit, handler >>

\* stop_scheduler(), up to worker_thread.join; the iteration over
\* active_tasks.values() is one step
StopScheduler ==
    /\ CallerReady
    /\ IF ~running
       THEN /\ Returned("stop_scheduler", "", "None")
            /\ UNCHANGED << running, auto_booking, caller >>
       ELSE /\ running' = FALSE
            /\ auto_booking' = IF \E k \in active_tasks : task[k].status = "running"
                               THEN CancelBooking(auto_booking) ELSE auto_booking
            /\ IF worker_thread # 0
               THEN caller' = "joining" /\ UNCHANGED last
               ELSE Returned("stop_scheduler", "", "None") /\ UNCHANGED caller
    /\ UNCHANGED << now, task, tasks, worker_thread, workers, active_tasks, contexts,
                    ghost, limit, handler >>

\* stop_scheduler(): worker_thread.join(timeout=5) returns.  The loop makes no
\* blocking call, so it leaves within one scan of reading running = False.
StopSchedulerJoin ==
    /\ caller = "joining"
    /\ ~IsAlive(worker_thread)
    /\ caller' = "idle"
    /\ Returned("stop_scheduler", "", "None")
    /\ UNCHANGED << now, task, tasks, running, worker_thread, workers, active_tasks,
                    contexts, auto_booking, ghost, limit, handler >>

\* pause_scheduler()
PauseScheduler ==
    /\ CallerReady
    /\ running' = FALSE
    /\ Returned("pause_scheduler", "", "None")
    /\ UNCHANGED << now, task, tasks, worker_thread, workers, active_tasks, contexts,
                    auto_booking, caller, ghost, limit, handler >>

\* resume_scheduler()
ResumeScheduler ==
    /\ CallerReady
    /\ IF running
       THEN UNCHANGED << running, worker_thread, workers >>
       ELSE IF IsAlive(worker_thread)
            THEN running' = TRUE /\ UNCHANGED << worker_thread, workers >>
            ELSE /\ FreeSlots # {}
                 /\ LET w == CHOOSE x \in FreeSlots : \A y \in FreeSlots : x <= y
                    IN  /\ running' = TRUE
                        /\ workers' = SpawnWorker(w)
                        /\ worker_thread' = w
    /\ Returned("resume_scheduler", "", "None")
    /\ UNCHANGED << now, task, tasks, active_tasks, contexts, auto_booking, caller, ghost, limit, handler >>

\* cancel_all_tasks()
CancelAllTasks ==
    /\ CallerReady
    /\ task' = [ k \in DOMAIN task |->
                   IF InCollection(k) /\ task[k].status \in {"running", "searching", "booking"}
                   THEN [ task[k] EXCEPT !.status = "cancelled" ] ELSE task[k] ]
    /\ auto_booking' = CancelBooking(auto_booking)
    /\ Returned("cancel_all_tasks", "", "None")
    /\ UNCHANGED << now, tasks, running, worker_thread, workers, active_tasks, contexts,
                    caller, ghost, limit, handler >>

\* the task cancel_task(task_identifier) resolves the identifier to: the first
\* task of the collection whose train number or id equals it; "" if none
CancelledTask(task_identifier) ==
    LET i == FirstIndex(tasks, { k \in DOMAIN task :
                                   \/ task[k].train_number = task_identifier
                                   \/ task[k].created_at = task_identifier })
    IN  IF i = 0 THEN "" ELSE tasks[i]

\* cancel_task without the test of the task's status
CancelTaskAnyStatus(task_identifier) ==
    /\ CallerReady
    /\ LET k == CancelledTask(task_identifier)
       IN  IF k # ""
           THEN /\ task' = [ task EXCEPT ![k].status = "cancelled" ]
                /\ auto_booking' = IF task[k].status # "pending"
                                   THEN CancelBooking(auto_booking) ELSE auto_booking
                /\ active_tasks' = active_tasks \ {k}
                /\ UNCHANGED ghost
                /\ Returned("cancel_task", task_identifier, TRUE)
           ELSE /\ Returned("cancel_task", task_identifier, FALSE)
                /\ UNCHANGED << task, auto_booking, active_tasks, ghost >>
    /\ UNCHANGED << now, tasks, running, worker_thread, workers, contexts, caller, limit, handler >>

\* cancel_task(task_identifier).  Between "if task_key in self.active_tasks"
\* and the del, the task's context can run its own del (c # 0): the KeyError
\* is caught by the except clause, which returns False.
CancelTask(task_identifier) ==
    /\ CallerReady
    /\ LET k == CancelledTask(task_identifier)
           leaving == { c \in DOMAIN contexts :
                          /\ contexts[c].task = k
                          /\ contexts[c].pc = "finally"
                          /\ k \in active_tasks }
       IN  IF k # "" /\ task[k].status \in {"pending", "searching", "booking", "running"}
           THEN \E c \in leaving \cup {0} :
                /\ task' = [ task EXCEPT ![k].status = "cancelled" ]
                /\ auto_booking' = IF task[k].status \in {"searching", "booking", "running"}
                                   THEN CancelBooking(auto_booking) ELSE auto_booking
                /\ active_tasks' = active_tasks \ {k}
                /\ IF c = 0
                   THEN /\ ghost' = IF task[k].status = "booking"
                                    THEN [ ghost EXCEPT ![k].firing_cancel = TRUE ]
                                    ELSE ghost
                        /\ UNCHANGED contexts
                        /\ Returned("cancel_task", task_identifier, TRUE)
                   ELSE /\ contexts' = [ contexts EXCEPT ![c].pc = "done" ]
                        /\ UNCHANGED ghost
                        /\ Returned("cancel_task", task_identifier, FALSE)
           ELSE /\ Returned("cancel_task", task_identifier, FALSE)
                /\ UNCHANGED << task, auto_booking, active_tasks, contexts, ghost >>
    /\ UNCHANGED << now, tasks, running, worker_thread, workers, caller, limit, handler >>

\* get_statistics()
GetStatistics ==
    LET Count(st) == Cardinality({ i \in 1..Len(tasks) : task[tasks[i]].status = st })
    IN  [ total_tasks       |-> Len(tasks),
          pending_tasks     |-> Count("pending"),
          searching_tasks   |-> Count("searching"),
          booking_tasks     |-> Count("booking"),
          running_tasks     |-> Count("running"),
          completed_tasks   |-> Count("completed"),
          failed_tasks      |-> Count("failed"),
          active_tasks      |-> Cardinality(active_tasks),
          scheduler_running |-> running ]

---------------------------------------------------------------------------
(* The timing loop: _worker_loop.  A thread iterates over self.tasks by     *)
(* position, so it sees the list as the caller's in-place append, sort and  *)
(* pop leave it.                                                           *)

\* _worker_loop: the condition of the if (pre-search five minutes ahead), on
\* the task heap h and the active_tasks keys act
PreSearchDue(h, act, k, current_time) ==
    /\ h[k].status = "pending"
    /\ ~h[k].search_started
    /\ current_time >= h[k].pre_search_start_time
    /\ k \notin act

\* _worker_loop: the condition of the elif (the legacy mode)
StartDue(h, act, k, current_time) ==
    /\ h[k].status = "pending"
    /\ ~h[k].search_started
    /\ current_time >= h[k].start_time
    /\ k \notin act

\* _cleanup_tasks: the list the comprehension builds
CleanedTasks ==
    LET cutoff_time == now - Retention
    IN  SelectKeys(tasks, { k \in DOMAIN task :
                              ~(/\ task[k].status \in {"completed", "failed"}
                                /\ task[k].created_time < cutoff_time) })

\* position of the first task from position i on for which the if or the
\* elif of the loop body holds; 0 if the loop runs to the end of the list
NextDue(h, act, i, current_time) ==
    LET due == { j \in i..Len(tasks) :
                   \/ PreSearchDue(h, act, tasks[j], current_time)
                   \/ StartDue(h, act, tasks[j], current_time) }
    IN  IF due = {} THEN 0 ELSE CHOOSE j \in due : \A x \in due : j <= x

\* the worker after its for loop has advanced, from position i on, to the next
\* task whose if or elif holds, or to the end of the list
Advance(wk, h, act, i, current_time) ==
    LET j == NextDue(h, act, i, current_time)
    IN  IF j = 0 THEN [ DeadWorker EXCEPT !.pc = "cleanup" ]
        ELSE [ wk EXCEPT !.pc = IF PreSearchDue(h, act, tasks[j], current_time)
                                THEN "promote" ELSE "start_task",
                         !.i = j, !.k = tasks[j], !.current_time = current_time ]

\* while self.running: current_time = datetime.now(); for task in self.tasks: ...
\* up to the first task whose if or elif holds.  The thread ends when running
\* is False.
WorkerLoop(w) ==
    /\ workers[w].pc = "loop"
    /\ workers' = [ workers EXCEPT ![w] =
                      IF running THEN Advance(@, task, active_tasks, 1, now)
                      ELSE DeadWorker ]
    /\ UNCHANGED << now, task, tasks, running, worker_thread, active_tasks, contexts,
                    auto_booking, caller, last, ghost, limit, handler >>

\* the body of the if: search_started, status, active_tasks, the new thread;
\* the body of the elif: _start_task; then the for loop goes on
WorkerPromote(w) ==
    /\ workers[w].pc \in {"promote", "start_task"}
    /\ LET k == workers[w].k
           fn == IF workers[w].pc = "promote" THEN "enhanced" ELSE "task"
           heap == IF fn = "enhanced"
                   THEN [ task EXCEPT ![k].search_started = TRUE,
                                      ![k].status = "searching" ]
                   ELSE [ task EXCEPT ![k].status = "running" ]
       IN  /\ task' = heap
           /\ active_tasks' = active_tasks \cup {k}
           /\ contexts' = SpawnContext(k, fn)
           /\ ghost' = [ ghost EXCEPT ![k].spawned = @ + 1 ]
           /\ workers' = [ workers EXCEPT ![w] =
                 Advance(@, heap, active_tasks \cup {k}, @.i + 1, @.current_time) ]
    /\ UNCHANGED << now, tasks, running, worker_thread, auto_booking, caller, last, limit, handler >>

\* _cleanup_tasks: the comprehension is evaluated
WorkerCleanup(w) ==
    /\ workers[w].pc = "cleanup"
    /\ workers' = [ workers EXCEPT ![w].pc = "assign", ![w].kept = CleanedTasks ]
    /\ UNCHANGED << now, task, tasks, running, worker_thread, active_tasks, contexts,
                    auto_booking, caller, last, ghost, limit, handler >>

\* _cleanup_tasks: self.tasks = [...]; then time.sleep(0.01)
WorkerAssign(w) ==
    /\ workers[w].pc = "assign"
    /\ tasks' = workers[w].kept
    /\ workers' = [ workers EXCEPT ![w].pc = "loop", ![w].kept = << >> ]
    /\ UNCHANGED << now, task, running, worker_thread, active_tasks, contexts,
                    auto_booking, caller, last, ghost, limit, handler >>

---------------------------------------------------------------------------
(* The Agent: AutoBooking.  Every stage catches its own exceptions and     *)
(* returns a bool; a stage that fails by an exception records its text and *)
(* sets FAILED, a stage that gives up (login timeout, empty result list)   *)
(* returns False and records nothing.                                      *)

\* auto_book_ticket: the stages in call order
Stages == << "login", "search", "select", "assign", "submit", "confirm" >>

\* self.status = BookingStatus.X at the head of each stage
StageStatus ==
    [ login   |-> "WAITING_FOR_LOGIN",
      search  |-> "SEARCHING",
      select  |-> "SELECTING_TRAIN",
      assign  |-> "SELECTING_SEATS",
      submit  |-> "SUBMITTING_ORDER",
      confirm |-> "CONFIRMING_PAYMENT" ]

\* self.error_message = str(e) in the except clause of a stage: the text is
\* opaque to the scheduler, one text stands for all
StageError == "Session expired, please login"

\* how a stage can end
Outcomes(stage) ==
    IF stage \in {"login", "search"} THEN {"ok", "gave_up", "error"} ELSE {"ok", "error"}

\* the AutoBooking object after the stage ended with the outcome
AfterStage(ab, stage, outcome) ==
    IF outcome = "error"
    THEN [ status |-> "FAILED", error_message |-> StageError ]
    ELSE IF outcome = "ok" /\ stage = "confirm"
    THEN [ ab EXCEPT !.status = "SUCCESS" ]
    ELSE [ ab EXCEPT !.status = StageStatus[stage] ]

\* _assign_seat_and_ticket that returns the ok_row of the last passenger
AssignSeatAndTicketLast(ok_rows) ==
    ok_rows = << >> \/ ok_rows[Len(ok_rows)]

\* _assign_seat_and_ticket: success starts True and becomes False at every
\* passenger whose _set_for_passenger_row_with_index returns False
AssignSeatAndTicket(ok_rows) ==
    \A i \in DOMAIN ok_rows : ok_rows[i]

\* select_passengers_and_seats: RuntimeError, caught by its own except
\* clause, when no passenger could be selected (selected_any, False for an
\* empty passenger list) or when _assign_seat_and_ticket returns False; the
\* results of _pick_seat_position_for_passenger are not read
SelectPassengersAndSeats(ticket_passengers, selected_any, ok_rows) ==
    IF ticket_passengers # << >> /\ selected_any /\ AssignSeatAndTicket(ok_rows)
    THEN "ok" ELSE "error"

\* history: the stage calls of the auto_book_ticket call under way, with the
\* ok_row of every passenger in the record of select_passengers_and_seats
Ran(ran, stage, outcome, ok_rows) ==
    IF limit.trace
    THEN Append(ran, [ stage |-> stage, outcome |-> outcome, ok_rows |-> ok_rows ])
    ELSE ran

\* history: the time at which a context set task k completed or failed
Terminated(g, k) ==
    IF limit.trace THEN [ g EXCEPT ![k].ended_at = now ] ELSE g

\* history: one more Agent call made for task k
AgentCalled(g, k) ==
    IF g[k].firing_cancel
    THEN [ g EXCEPT ![k].stages_after_cancel = IF @ < 2 THEN @ + 1 ELSE @ ]
    ELSE g

\* history: one more search_tickets call made for task k outside an attempt
\* (revalidated counts them since the last attempt started, up to 2)
SearchCalled(g, k) ==
    [ AgentCalled(g, k) EXCEPT ![k].revalidated = IF @ < 2 THEN @ + 1 ELSE @ ]

\* history: one more refresh of the pre-warm loop made for task k at time t
\* (refresh_odd is the parity of their number)
RefreshCalled(g, k, t) ==
    [ SearchCalled(g, k) EXCEPT ![k].refresh_at = t, ![k].refresh_odd = ~@ ]

---------------------------------------------------------------------------
(* The failure classifier: ErrorHandler (src/error_handler.py).  A string  *)
(* is read as its sequence of characters; a keyword is contained in a      *)
(* message when its characters occur in it side by side.  The keywords     *)
(* outside ASCII are left out: no message of the model contains them.      *)
(***************************************************************************)

\* the messages handle_error is called with
Messages ==
    { "session expired, please login",
      "Session expired, please login",
      "Login timeout",
      "Connection refused",
      "Invalid username",
      "Wrong captcha code",
      "Decode failed",
      "sold out",
      "No seat",
      "Passenger name invalid",
      "Submit order failed",
      "Payment declined",
      "Internal server error",
      "Element not found",
      "" }

\* str(error), str(keyword): the characters of the strings of the model
Chars(message) ==
    CASE message = "session expired, please login" ->
            << "s", "e", "s", "s", "i", "o", "n", " ", "e", "x", "p", "i",
               "r", "e", "d", ",", " ", "p", "l", "e", "a", "s", "e", " ",
               "l", "o", "g", "i", "n" >>
      [] message = "Session expired, please login" ->
            << "S", "e", "s", "s", "i", "o", "n", " ", "e", "x", "p", "i",
               "r", "e", "d", ",", " ", "p", "l", "e", "a", "s", "e", " ",
               "l", "o", "g", "i", "n" >>
      [] message = "Login timeout" ->
            << "L", "o", "g", "i", "n", " ", "t", "i", "m", "e", "o", "u",
               "t" >>
      [] message = "Connection refused" ->
            << "C", "o", "n", "n", "e", "c", "t", "i", "o", "n", " ", "r",
               "e", "f", "u", "s", "e", "d" >>
      [] message = "Invalid username" ->
            << "I", "n", "v", "a", "l", "i", "d", " ", "u", "s", "e", "r",
               "n", "a", "m", "e" >>
      [] message = "Wrong captcha code" ->
            << "W", "r", "o", "n", "g", " ", "c", "a", "p", "t", "c", "h",
               "a", " ", "c", "o", "d", "e" >>
      [] message = "Decode failed" ->
            << "D", "e", "c", "o", "d", "e", " ", "f", "a", "i", "l", "e",
               "d" >>
      [] message = "sold out" ->
            << "s", "o", "l", "d", " ", "o", "u", "t" >>
      [] message = "No seat" ->
            << "N", "o", " ", "s", "e", "a", "t" >>
      [] message = "Passenger name invalid" ->
            << "P", "a", "s", "s", "e", "n", "g", "e", "r", " ", "n", "a",
               "m", "e", " ", "i", "n", "v", "a", "l", "i", "d" >>
      [] message = "Submit order failed" ->
            << "S", "u", "b", "m", "i", "t", " ", "o", "r", "d", "e", "r",
               " ", "f", "a", "i", "l", "e", "d" >>
      [] message = "Payment declined" ->
            << "P", "a", "y", "m", "e", "n", "t", " ", "d", "e", "c", "l",
               "i", "n", "e", "d" >>
      [] message = "Internal server error" ->
            << "I", "n", "t", "e", "r", "n", "a", "l", " ", "s", "e", "r",
               "v", "e", "r", " ", "e", "r", "r", "o", "r" >>
      [] message = "Element not found" ->
            << "E", "l", "e", "m", "e", "n", "t", " ", "n", "o", "t", " ",
               "f", "o", "u", "n", "d" >>
      [] message = "network" ->
            << "n", "e", "t", "w", "o", "r", "k" >>
      [] message = "connection" ->
            << "c", "o", "n", "n", "e", "c", "t", "i", "o", "n" >>
      [] message = "timeout" ->
            << "t", "i", "m", "e", "o", "u", "t" >>
      [] message = "unreachable" ->
            << "u", "n", "r", "e", "a", "c", "h", "a", "b", "l", "e" >>
      [] message = "dns" ->
            << "d", "n", "s" >>
      [] message = "login" ->
            << "l", "o", "g", "i", "n" >>
      [] message = "authentication" ->
            << "a", "u", "t", "h", "e", "n", "t", "i", "c", "a", "t", "i",
               "o", "n" >>
      [] message = "username" ->
            << "u", "s", "e", "r", "n", "a", "m", "e" >>
      [] message = "password" ->
            << "p", "a", "s", "s", "w", "o", "r", "d" >>
      [] message = "session" ->
            << "s", "e", "s", "s", "i", "o", "n" >>
      [] message = "captcha" ->
            << "c", "a", "p", "t", "c", "h", "a" >>
      [] message = "verification" ->
            << "v", "e", "r", "i", "f", "i", "c", "a", "t", "i", "o", "n" >>
      [] message = "code" ->
            << "c", "o", "d", "e" >>
      [] message = "no ticket" ->
            << "n", "o", " ", "t", "i", "c", "k", "e", "t" >>
      [] message = "sold out" ->
            << "s", "o", "l", "d", " ", "o", "u", "t" >>
      [] message = "ticket not available" ->
            << "t", "i", "c", "k", "e", "t", " ", "n", "o", "t", " ", "a",
               "v", "a", "i", "l", "a", "b", "l", "e" >>
      [] message = "seat" ->
            << "s", "e", "a", "t" >>
      [] message = "berth" ->
            << "b", "e", "r", "t", "h" >>
      [] message = "passenger" ->
            << "p", "a", "s", "s", "e", "n", "g", "e", "r" >>
      [] message = "id card" ->
            << "i", "d", " ", "c", "a", "r", "d" >>
      [] message = "name" ->
            << "n", "a", "m", "e" >>
      [] message = "submit" ->
            << "s", "u", "b", "m", "i", "t" >>
      [] message = "order" ->
            << "o", "r", "d", "e", "r" >>
      [] message = "payment" ->
            << "p", "a", "y", "m", "e", "n", "t" >>
      [] message = "pay" ->
            << "p", "a", "y" >>
      [] message = "system" ->
            << "s", "y", "s", "t", "e", "m" >>
      [] message = "server" ->
            << "s", "e", "r", "v", "e", "r" >>
      [] message = "internal" ->
            << "i", "n", "t", "e", "r", "n", "a", "l" >>
      [] OTHER -> << >>

\* str.lower() on the upper-case letters
LowerCase ==
    [ A |-> "a", B |-> "b", C |-> "c", D |-> "d", E |-> "e", F |-> "f", G |-> "g",
      H |-> "h", I |-> "i", J |-> "j", K |-> "k", L |-> "l", M |-> "m", N |-> "n",
      O |-> "o", P |-> "p", Q |-> "q", R |-> "r", S |-> "s", T |-> "t", U |-> "u",
      V |-> "v", W |-> "w", X |-> "x", Y |-> "y", Z |-> "z" ]

\* str.lower() on a character
Lower(ch) == IF ch \in DOMAIN LowerCase THEN LowerCase[ch] ELSE ch

\* keyword in error_message, both as sequences of characters
Contains(chars, keyword) ==
    \E i \in 1..(Len(chars) - Len(keyword) + 1) :
       \A j \in 1..Len(keyword) : chars[i + j - 1] = keyword[j]

\* _analyze_error: the keyword lists in the order of the if/elif chain
KeywordTable ==
    << [ type |-> "NETWORK_ERROR",
         keywords |-> { "network", "connection", "timeout", "unreachable", "dns" } ],
       [ type |-> "LOGIN_ERROR",
         keywords |-> { "login", "authentication", "username", "password", "session" } ],
       [ type |-> "CAPTCHA_ERROR",
         keywords |-> { "captcha", "verification", "code" } ],
       [ type |-> "NO_TICKET_ERROR",
         keywords |-> { "no ticket", "sold out", "ticket not available" } ],
       [ type |-> "SEAT_ERROR",
         keywords |-> { "seat", "berth" } ],
       [ type |-> "PASSENGER_ERROR",
         keywords |-> { "passenger", "id card", "name" } ],
       [ type |-> "SUBMIT_ERROR",
         keywords |-> { "submit", "order" } ],
       [ type |-> "PAYMENT_ERROR",
         keywords |-> { "payment", "pay" } ],
       [ type |-> "SYSTEM_ERROR",
         keywords |-> { "system", "server", "internal" } ] >>

\* any(keyword in error_message for keyword in keywords)
AnyKeyword(error_message, keywords) ==
    \E keyword \in keywords : Contains(error_message, Chars(keyword))

\* str(error).lower()
LowerMessage(message) ==
    [ i \in 1..Len(Chars(message)) |-> Lower(Chars(message)[i]) ]

\* _analyze_error with the elif chain read from its end
AnalyzeErrorLast(message) ==
    LET hits == { i \in 1..Len(KeywordTable) :
                    AnyKeyword(LowerMessage(message), KeywordTable[i].keywords) }
    IN  IF hits = {} THEN "UNKNOWN_ERROR"
        ELSE KeywordTable[CHOOSE i \in hits : \A j \in hits : i >= j].type

\* _analyze_error(error)
AnalyzeError(message) ==
    LET error_message == LowerMessage(message)
        hits == { i \in 1..Len(KeywordTable) :
                    AnyKeyword(error_message, KeywordTable[i].keywords) }
    IN  IF hits = {} THEN "UNKNOWN_ERROR"
        ELSE KeywordTable[CHOOSE i \in hits : \A j \in hits : i <= j].type

\* UserChoice
UserChoices ==
    { "RETRY", "MANUAL_BOOKING", "SKIP_TASK", "CANCEL_ALL", "WAIT_AND_RETRY",
      "CHANGE_STRATEGY" }

\* ErrorHandler.default_strategies after __init__
DefaultStrategies ==
    [ NETWORK_ERROR   |-> "RETRY",
      LOGIN_ERROR     |-> "MANUAL_BOOKING",
      CAPTCHA_ERROR   |-> "MANUAL_BOOKING",
      NO_TICKET_ERROR |-> "WAIT_AND_RETRY",
      SEAT_ERROR      |-> "CHANGE_STRATEGY",
      PASSENGER_ERROR |-> "MANUAL_BOOKING",
      SUBMIT_ERROR    |-> "RETRY",
      PAYMENT_ERROR   |-> "MANUAL_BOOKING",
      SYSTEM_ERROR    |-> "CANCEL_ALL",
      UNKNOWN_ERROR   |-> "RETRY" ]

\* _get_user_choice that never asks the callback
GetUserChoiceDefault(user_callback, outcome, error_type) ==
    DefaultStrategies[error_type]

\* _get_user_choice(error_type, error_message); outcome is what the callback
\* does when it is called: the UserChoice it returns, or "raise"
GetUserChoice(user_callback, outcome, error_type) ==
    IF user_callback # "None" /\ outcome # "raise" THEN outcome
    ELSE DefaultStrategies[error_type]

\* _execute_strategy: the strategies that call cancel_booking
CancellingChoices == { "MANUAL_BOOKING", "SKIP_TASK", "CANCEL_ALL" }

\* set_user_callback(callback)
SetUserCallback ==
    /\ handler.user_callback = "None"
    /\ handler' = [ handler EXCEPT !.user_callback = "set" ]
    /\ UNCHANGED << now, task, tasks, running, worker_thread, workers, active_tasks,
                    contexts, auto_booking, caller, last, ghost, limit >>

\* handle_error(error): _analyze_error, _log_error, _get_user_choice,
\* _execute_strategy, return user_choice
HandleError(message) ==
    /\ Len(handler.error_history) < MaxErrors
    /\ \E outcome \in IF handler.user_callback = "None" THEN {"None"}
                       ELSE UserChoices \cup {"raise"} :
         LET error_type == AnalyzeError(message)
             user_choice == GetUserChoice(handler.user_callback, outcome, error_type)
         IN  /\ handler' =
                   [ handler EXCEPT
                       !.error_history = Append(@, [ error_type |-> error_type,
                                                     error_message |-> message ]),
                       !.returned = [ error |-> message, choice |-> user_choice,
                                      callback |-> IF outcome = "None" THEN "absent"
                                                   ELSE IF outcome = "raise" THEN "raised"
                                                   ELSE "returned",
                                      answer |-> outcome ] ]
             /\ auto_booking' = IF user_choice \in CancellingChoices
                                THEN CancelBooking(auto_booking) ELSE auto_booking
    /\ UNCHANGED << now, task, tasks, running, worker_thread, workers, active_tasks,
                    contexts, caller, last, ghost, limit >>

\* should_retry: no_retry_types
NoRetryTypes == { "LOGIN_ERROR", "CAPTCHA_ERROR", "PASSENGER_ERROR", "SYSTEM_ERROR" }

\* ErrorHandler.max_retry_count
MaxRetryCount == 3

\* should_retry(error_type, retry_count)
ShouldRetry(error_type, retry_count) ==
    IF retry_count >= MaxRetryCount THEN FALSE
    ELSE error_type \notin NoRetryTypes

---------------------------------------------------------------------------
(* The execution contexts: _execute_enhanced_booking ("enhanced") and      *)
(* _execute_task ("task").                                                  *)

\* random.uniform(a, b), in milliseconds: the ends of the range
Uniform(a, b) == {a, b}

\* the wait after an attempt that returned failure, by task.retry_count
RetryWait(retry_count) ==
    IF retry_count = 1 THEN Uniform(100, 300)
    ELSE IF retry_count = 2 THEN Uniform(200, 500)
    ELSE Uniform(500, 1000)

\* the wait after an attempt that ended in the except clause
ExceptWait == Uniform(300, 800)

\* the pre-warm loop: does an iteration with this much time left call search_tickets
RefreshDue(time_remaining) ==
    IF time_remaining > 120 THEN time_remaining % 30 < 1
    ELSE IF time_remaining > 60 THEN time_remaining % 15 < 1
    ELSE IF time_remaining > 10 THEN time_remaining % 5 < 1
    ELSE time_remaining > 3

\* a context that takes the start of the pre-search for its end
PreSearchEndAtLead(k) == task[k].pre_search_start_time

\* pre_search_end_time = task.start_time
PreSearchEndTime(k) == task[k].start_time

\* the thread starts: current_time = datetime.now() and the first if
\* (enhanced); task.retry_count = 0 (task)
CtxBegin(c) ==
    /\ contexts[c].pc = "begin"
    /\ LET k == contexts[c].task
       IN  IF contexts[c].fn = "enhanced"
           THEN /\ contexts' = [ contexts EXCEPT ![c].pc =
                                   IF now < PreSearchEndTime(k) THEN "login" ELSE "check",
                                 ![c].current_time =
                                   IF now < PreSearchEndTime(k) THEN now ELSE 0 ]
                /\ ghost' = IF now < PreSearchEndTime(k)
                            THEN [ ghost EXCEPT ![k].prewarmed = TRUE ] ELSE ghost
                /\ UNCHANGED task
           ELSE /\ contexts' = [ contexts EXCEPT ![c].pc = "loop" ]
                /\ task' = [ task EXCEPT ![k].retry_count = 0 ]
                /\ UNCHANGED ghost
    /\ UNCHANGED << now, tasks, running, worker_thread, workers, active_tasks,
                    auto_booking, caller, last, limit, handler >>

\* pre-warm: open_browser_and_wait_for_login returns
CtxLogin(c) ==
    /\ contexts[c].pc = "login"
    /\ LET k == contexts[c].task
       IN  \E outcome \in Outcomes("login") :
             /\ auto_booking' = AfterStage(auto_booking, "login", outcome)
             /\ ghost' = IF outcome = "ok" THEN AgentCalled(ghost, k)
                         ELSE Terminated(AgentCalled(ghost, k), k)
             /\ IF outcome = "ok"
                THEN /\ contexts' = [ contexts EXCEPT ![c].pc = "presearch" ]
                     /\ UNCHANGED task
                ELSE /\ contexts' = [ contexts EXCEPT ![c].pc = "finally",
                                                      ![c].current_time = 0 ]
                     /\ task' = [ task EXCEPT ![k].status = "failed",
                                              ![k].error_message = "prewarm login failed" ]
    /\ UNCHANGED << now, tasks, running, worker_thread, workers, active_tasks,
                    caller, last, limit, handler >>

\* pre-warm: the initial search_tickets; its result is only logged
CtxPreSearch(c) ==
    /\ contexts[c].pc = "presearch"
    /\ \E outcome \in Outcomes("search") :
          auto_booking' = AfterStage(auto_booking, "search", outcome)
    /\ ghost' = SearchCalled(ghost, contexts[c].task)
    /\ contexts' = [ contexts EXCEPT ![c].pc = "prewarm" ]
    /\ UNCHANGED << now, task, tasks, running, worker_thread, workers, active_tasks,
                    caller, last, limit, handler >>

\* pre-warm: one evaluation of the while condition and, if it holds, one
\* iteration: the tiered refresh, the sleep, current_time = datetime.now()
CtxPreWarm(c) ==
    /\ contexts[c].pc = "prewarm"
    /\ LET k == contexts[c].task
           current_time == contexts[c].current_time
       IN  IF current_time < PreSearchEndTime(k) /\ task[k].status = "searching"
           THEN /\ contexts' = [ contexts EXCEPT ![c].current_time = now ]
                /\ IF RefreshDue(PreSearchEndTime(k) - current_time)
                   THEN /\ \E outcome \in Outcomes("search") :
                              auto_booking' = AfterStage(auto_booking, "search", outcome)
                        /\ ghost' = RefreshCalled(ghost, k, now)
                   ELSE UNCHANGED << auto_booking, ghost >>
           ELSE /\ contexts' = [ contexts EXCEPT ![c].pc = "check", ![c].current_time = 0 ]
                /\ UNCHANGED << auto_booking, ghost >>
    /\ UNCHANGED << now, task, tasks, running, worker_thread, workers, active_tasks,
                    caller, last, limit, handler >>

\* if task.status != "searching": return
CtxCheck(c) ==
    /\ contexts[c].pc = "check"
    /\ contexts' = [ contexts EXCEPT ![c].pc =
                       IF task[contexts[c].task].status # "searching"
                       THEN "finally" ELSE "wait" ]
    /\ UNCHANGED << now, task, tasks, running, worker_thread, workers, active_tasks,
                    auto_booking, caller, last, ghost, limit, handler >>

\* time.sleep(final_wait_time) is over; task.status = "booking"
CtxFire(c) ==
    /\ contexts[c].pc = "wait"
    /\ LET k == contexts[c].task
       IN  /\ now >= PreSearchEndTime(k)
           /\ task' = [ task EXCEPT ![k].status = "booking",
                                    ![k].booking_attempted = TRUE ]
    /\ contexts' = [ contexts EXCEPT ![c].pc = "final_search" ]
    /\ UNCHANGED << now, tasks, running, worker_thread, workers, active_tasks,
                    auto_booking, caller, last, ghost, limit, handler >>

\* the last search_tickets before the attempts; task.retry_count = 0
CtxFinalSearch(c) ==
    /\ contexts[c].pc = "final_search"
    /\ LET k == contexts[c].task
       IN  /\ \E outcome \in Outcomes("search") :
                 auto_booking' = AfterStage(auto_booking, "search", outcome)
           /\ ghost' = SearchCalled(ghost, k)
           /\ task' = [ task EXCEPT ![k].retry_count = 0 ]
    /\ contexts' = [ contexts EXCEPT ![c].pc = "loop" ]
    /\ UNCHANGED << now, tasks, running, worker_thread, workers, active_tasks,
                    caller, last, limit, handler >>

\* the while condition of the attempts and task.retry_count += 1
CtxLoop(c) ==
    /\ contexts[c].pc = "loop"
    /\ LET k == contexts[c].task
       IN  IF /\ task[k].retry_count < task[k].max_retries
              /\ (contexts[c].fn = "enhanced" => task[k].status = "booking")
           THEN /\ task' = [ task EXCEPT ![k].retry_count = @ + 1 ]
                /\ contexts' = [ contexts EXCEPT ![c].pc = "stage", ![c].stage = 1,
                                                 ![c].wait = 0, ![c].ran = << >> ]
                /\ ghost' = [ ghost EXCEPT ![k].attempts = @ + 1,
                                            ![k].revalidated = 0 ]
           ELSE /\ contexts' = [ contexts EXCEPT ![c].pc = "finally", ![c].wait = 0 ]
                /\ UNCHANGED << task, ghost >>
    /\ UNCHANGED << now, tasks, running, worker_thread, workers, active_tasks,
                    auto_booking, caller, last, limit, handler >>

\* auto_book_ticket: the next stage runs and returns
CtxStage(c) ==
    /\ contexts[c].pc = "stage"
    /\ LET stage == Stages[contexts[c].stage]
           ticket_passengers == TicketPassengers[task[contexts[c].task].train_number]
       IN  \E selected_any \in BOOLEAN,
              ok_rows \in IF stage = "assign"
                          THEN [ DOMAIN ticket_passengers -> BOOLEAN ] ELSE { << >> },
              result \in Outcomes(stage) :
             LET outcome == IF stage = "assign"
                            THEN SelectPassengersAndSeats(ticket_passengers,
                                                          selected_any, ok_rows)
                            ELSE result
             IN  /\ auto_booking' = AfterStage(auto_booking, stage, outcome)
                 /\ contexts' = [ contexts EXCEPT ![c] =
                       LET ctx == [ @ EXCEPT !.ran = Ran(@, stage, outcome, ok_rows) ]
                       IN  IF outcome # "ok"
                           THEN [ ctx EXCEPT !.pc = "after", !.stage = 0,
                                             !.success = FALSE ]
                           ELSE IF ctx.stage = Len(Stages)
                           THEN [ ctx EXCEPT !.pc = "after", !.stage = 0,
                                             !.success = TRUE ]
                           ELSE [ ctx EXCEPT !.stage = @ + 1 ] ]
    /\ ghost' = AgentCalled(ghost, contexts[c].task)
    /\ UNCHANGED << now, task, tasks, running, worker_thread, workers, active_tasks,
                    caller, last, limit, handler >>

\* auto_book_ticket has returned: if success ... else ...; a callback is the
\* caller's function and may raise
CtxAfter(c) ==
    /\ contexts[c].pc = "after"
    /\ LET k == contexts[c].task
       IN  IF contexts[c].success
           THEN \E raises \in BOOLEAN :
                  /\ task' = [ task EXCEPT ![k].status = "completed",
                                           ![k].result = "success" ]
                  /\ ghost' = [ Terminated(ghost, k) EXCEPT ![k].status_cb = @ + 1 ]
                  /\ contexts' = [ contexts EXCEPT ![c].success = FALSE,
                                     ![c].pc = IF raises THEN "except" ELSE "finally" ]
           ELSE IF task[k].retry_count >= task[k].max_retries
           THEN \E raises \in BOOLEAN :
                  /\ task' = [ task EXCEPT ![k].status = "failed",
                                 ![k].error_message = auto_booking.error_message ]
                  /\ ghost' = [ Terminated(ghost, k) EXCEPT ![k].error_cb = @ + 1 ]
                  /\ contexts' = [ contexts EXCEPT
                                     ![c].pc = IF raises THEN "except" ELSE "loop" ]
           ELSE /\ contexts' = [ contexts EXCEPT ![c].pc =
                                   IF contexts[c].fn = "enhanced" THEN "research" ELSE "loop" ]
                /\ UNCHANGED << task, ghost >>
    /\ UNCHANGED << now, tasks, running, worker_thread, workers, active_tasks,
                    auto_booking, caller, last, limit, handler >>

\* the re-validation search_tickets and the jittered sleep before the next attempt
CtxReSearch(c) ==
    /\ contexts[c].pc = "research"
    /\ \E outcome \in Outcomes("search") :
          auto_booking' = AfterStage(auto_booking, "search", outcome)
    /\ ghost' = SearchCalled(ghost, contexts[c].task)
    /\ \E wait_time \in RetryWait(task[contexts[c].task].retry_count) :
          contexts' = [ contexts EXCEPT ![c].pc = "loop", ![c].wait = wait_time ]
    /\ UNCHANGED << now, task, tasks, running, worker_thread, workers, active_tasks,
                    caller, last, limit, handler >>

\* except Exception as e, inside the while of the attempts
CtxExcept(c) ==
    /\ contexts[c].pc = "except"
    /\ LET k == contexts[c].task
       IN  IF contexts[c].fn = "enhanced"
           THEN IF task[k].retry_count + 1 >= task[k].max_retries
                THEN \E raises \in BOOLEAN :
                       /\ task' = [ task EXCEPT ![k].retry_count = @ + 1,
                                      ![k].status = "failed",
                                      ![k].error_message =
                                         IF raises THEN "callback error (outer)"
                                         ELSE "callback error" ]
                       /\ ghost' = [ Terminated(ghost, k) EXCEPT ![k].error_cb = @ + 1 ]
                       /\ contexts' = [ contexts EXCEPT ![c].pc = "finally" ]
                ELSE /\ task' = [ task EXCEPT ![k].retry_count = @ + 1 ]
                     /\ \E wait_time \in ExceptWait :
                           contexts' = [ contexts EXCEPT ![c].pc = "loop",
                                                         ![c].wait = wait_time ]
                     /\ UNCHANGED ghost
           ELSE IF task[k].retry_count >= task[k].max_retries
                THEN \E raises \in BOOLEAN :
                       /\ task' = [ task EXCEPT ![k].status = "failed",
                                      ![k].error_message =
                                         IF raises THEN "callback error (outer)"
                                         ELSE "callback error" ]
                       /\ ghost' = [ Terminated(ghost, k) EXCEPT ![k].error_cb = @ + 1 ]
                       /\ contexts' = [ contexts EXCEPT
                                          ![c].pc = IF raises THEN "finally" ELSE "loop" ]
                ELSE /\ task' = [ task EXCEPT ![k].error_message = "callback error" ]
                     /\ contexts' = [ contexts EXCEPT ![c].pc = "loop" ]
                     /\ UNCHANGED ghost
    /\ UNCHANGED << now, tasks, running, worker_thread, workers, active_tasks,
                    auto_booking, caller, last, limit, handler >>

\* the thread ends and leaves its active_tasks entry
CtxFinallyLeak(c) ==
    /\ contexts[c].pc = "finally"
    /\ contexts' = [ contexts EXCEPT ![c].pc = "done" ]
    /\ UNCHANGED << now, task, tasks, running, worker_thread, workers, active_tasks,
                    auto_booking, caller, last, ghost, limit, handler >>

\* finally: del self.active_tasks[task_key]; the thread ends
CtxFinally(c) ==
    /\ contexts[c].pc = "finally"
    /\ active_tasks' = active_tasks \ {contexts[c].task}
    /\ contexts' = [ contexts EXCEPT ![c].pc = "done" ]
    /\ UNCHANGED << now, task, tasks, running, worker_thread, workers,
                    auto_booking, caller, last, ghost, limit, handler >>

---------------------------------------------------------------------------

Next ==
    \/ \E t \in Instants : Tick(t)
    \/ \E r \in limit.requests : AddTask(r[1], now + r[2], r[3], r[4])
    \/ \E id \in Identifiers : RemoveTask(id)
    \/ StartScheduler
    \/ StopScheduler
    \/ StopSchedulerJoin
    \/ PauseScheduler
    \/ ResumeScheduler
    \/ CancelAllTasks
    \/ \E id \in Identifiers : CancelTask(id)
    \/ \E w \in DOMAIN workers : WorkerLoop(w)
    \/ \E w \in DOMAIN workers : WorkerPromote(w)
    \/ \E w \in DOMAIN workers : WorkerCleanup(w)
    \/ \E w \in DOMAIN workers : WorkerAssign(w)
    \/ \E c \in DOMAIN contexts : CtxBegin(c)
    \/ \E c \in DOMAIN contexts : CtxLogin(c)
    \/ \E c \in DOMAIN contexts : CtxPreSearch(c)
    \/ \E c \in DOMAIN contexts : CtxPreWarm(c)
    \/ \E c \in DOMAIN contexts : CtxCheck(c)
    \/ \E c \in DOMAIN contexts : CtxFire(c)
    \/ \E c \in DOMAIN contexts : CtxFinalSearch(c)
    \/ \E c \in DOMAIN contexts : CtxLoop(c)
    \/ \E c \in DOMAIN contexts : CtxStage(c)
    \/ \E c \in DOMAIN contexts : CtxAfter(c)
    \/ \E c \in DOMAIN contexts : CtxReSearch(c)
    \/ \E c \in DOMAIN contexts : CtxExcept(c)
    \/ \E c \in DOMAIN contexts : CtxFinally(c)

\* one task, one timing loop
Spec == Init /\ [][Next]_vars

\* one task with several attempts, one timing loop, few calls, the clock
\* followed past start_time
SpecRetry == InitRetry /\ [][Next]_vars

SpecWarm == InitWarm /\ [][Next]_vars

\* one task, timing loops that overlap
SpecRace == InitRace /\ [][Next]_vars

\* two due tasks: the calls that add and start, the timing loop and the
\* contexts from the final wait on
NextShare ==
    \/ \E r \in limit.requests : AddTask(r[1], now + r[2], r[3], r[4])
    \/ StartScheduler
    \/ \E w \in DOMAIN workers : WorkerLoop(w)
    \/ \E w \in DOMAIN workers : WorkerPromote(w)
    \/ \E w \in DOMAIN workers : WorkerCleanup(w)
    \/ \E w \in DOMAIN workers : WorkerAssign(w)
    \/ \E c \in DOMAIN contexts : CtxBegin(c)
    \/ \E c \in DOMAIN contexts : CtxCheck(c)
    \/ \E c \in DOMAIN contexts : CtxFire(c)
    \/ \E c \in DOMAIN contexts : CtxFinalSearch(c)
    \/ \E c \in DOMAIN contexts : CtxLoop(c)
    \/ \E c \in DOMAIN contexts : CtxStage(c)
    \/ \E c \in DOMAIN contexts : CtxAfter(c)
    \/ \E c \in DOMAIN contexts : CtxExcept(c)
    \/ \E c \in DOMAIN contexts : CtxFinally(c)

\* two tasks of two trains with contexts that are live at the same time
SpecShare == InitShare /\ [][NextShare]_vars

\* the caller thread, with add_task in its two steps, and a timing loop that
\* finds no task due
NextSort ==
    \/ \E r \in limit.requests : AddTaskAppend(r[1], now + r[2], r[3], r[4])
    \/ AddTaskSort
    \/ \E id \in Identifiers : RemoveTask(id)
    \/ \E id \in Identifiers : CancelTask(id)
    \/ StartScheduler
    \/ \E w \in DOMAIN workers : WorkerLoop(w)
    \/ \E w \in DOMAIN workers : WorkerCleanup(w)
    \/ \E w \in DOMAIN workers : WorkerAssign(w)

\* tasks of several priorities added while the timing loop cleans up
SpecSort == InitSort /\ [][NextSort]_vars

\* one step of the thread of context c
CtxStep(c) ==
    \/ CtxBegin(c)
    \/ CtxLogin(c)
    \/ CtxPreSearch(c)
    \/ CtxPreWarm(c)
    \/ CtxCheck(c)
    \/ CtxFire(c)
    \/ CtxFinalSearch(c)
    \/ CtxLoop(c)
    \/ CtxStage(c)
    \/ CtxAfter(c)
    \/ CtxReSearch(c)
    \/ CtxExcept(c)
    \/ CtxFinally(c)

\* one step of the timing loop thread w
WorkerStep(w) ==
    \/ WorkerLoop(w)
    \/ WorkerPromote(w)
    \/ WorkerCleanup(w)
    \/ WorkerAssign(w)

\* a scheduler that is started and then left alone
NextLate ==
    \/ \E t \in Instants : Tick(t)
    \/ \E r \in limit.requests : AddTask(r[1], now + r[2], r[3], r[4])
    \/ StartScheduler
    \/ \E w \in DOMAIN workers : WorkerStep(w)
    \/ \E c \in DOMAIN contexts : CtxStep(c)

\* time passes, every thread that can run does run, every Agent call returns
FairLate ==
    /\ WF_vars(\E t \in Instants : Tick(t))
    /\ \A w \in 1..MaxWorkers : WF_vars(w \in DOMAIN workers /\ WorkerStep(w))
    /\ \A c \in 1..MaxTasks : WF_vars(c \in DOMAIN contexts /\ CtxStep(c))

\* one task added less than the lead before its start_time, the scheduler
\* started and left alone
SpecLate == InitLate /\ [][NextLate]_vars /\ FairLate

\* one due task: the calls that add and start, the timing loop and the
\* context from the final wait on
NextStage ==
    \/ \E r \in limit.requests : AddTask(r[1], now + r[2], r[3], r[4])
    \/ StartScheduler
    \/ \E w \in DOMAIN workers : WorkerLoop(w)
    \/ \E w \in DOMAIN workers : WorkerPromote(w)
    \/ \E w \in DOMAIN workers : WorkerCleanup(w)
    \/ \E w \in DOMAIN workers : WorkerAssign(w)
    \/ \E c \in DOMAIN contexts : CtxBegin(c)
    \/ \E c \in DOMAIN contexts : CtxCheck(c)
    \/ \E c \in DOMAIN contexts : CtxFire(c)
    \/ \E c \in DOMAIN contexts : CtxFinalSearch(c)
    \/ \E c \in DOMAIN contexts : CtxLoop(c)
    \/ \E c \in DOMAIN contexts : CtxStage(c)
    \/ \E c \in DOMAIN contexts : CtxAfter(c)
    \/ \E c \in DOMAIN contexts : CtxReSearch(c)
    \/ \E c \in DOMAIN contexts : CtxExcept(c)
    \/ \E c \in DOMAIN contexts : CtxFinally(c)

SpecStage == InitStage /\ [][NextStage]_vars

\* one task: the calls that add and start, the clock, the timing loop and
\* the context
NextKeep ==
    \/ \E t \in Instants : Tick(t)
    \/ \E r \in limit.requests : AddTask(r[1], now + r[2], r[3], r[4])
    \/ StartScheduler
    \/ \E w \in DOMAIN workers : WorkerStep(w)
    \/ \E c \in DOMAIN contexts : CtxStep(c)

SpecKeep == InitKeep /\ [][NextKeep]_vars

\* the calls on the ErrorHandler
NextHandler ==
    \/ SetUserCallback
    \/ \E message \in Messages : HandleError(message)

\* an ErrorHandler that is handed errors, with and without a user callback
SpecHandler == Init /\ [][NextHandler]_vars

\* the caller thread alone, on a scheduler that is never started
NextPair ==
    \/ \E t \in Instants : Tick(t)
    \/ \E r \in limit.requests : AddTask(r[1], now + r[2], r[3], r[4])
    \/ \E id \in Identifiers : RemoveTask(id)
    \/ CancelAllTasks
    \/ \E id \in Identifiers : CancelTask(id)

\* two tasks of one train, the caller thread alone
SpecPair == InitPair /\ [][NextPair]_vars

---------------------------------------------------------------------------
(* Properties.                                                             *)

NonTerminal == {"pending", "searching", "booking", "running"}
Terminal == {"completed", "failed", "cancelled"}

\* the step is the return of the public method op
Returns(op) == last'.n = last.n + 1 /\ last'.op = op

\* the tasks of the collection that the identifier names: by id or by train number
Matching(task_identifier) ==
    { k \in DOMAIN task : /\ InCollection(k)
                          /\ \/ task[k].train_number = task_identifier
                             \/ task[k].created_at = task_identifier }

\* C1: terminal states are absorbing: once a task's status is completed,
\* failed or cancelled, no step of any thread changes it again
C1_TerminalAbsorbing ==
    [][ \A k \in DOMAIN task :
          task[k].status \in Terminal => task'[k].status = task[k].status ]_vars

\* C2: add_task with a start time that is <= now or > now + 30 days fails with
\* InvalidScheduleError, appends no task and returns no id
C2_InvalidScheduleRejected ==
    [][ (Returns("add_task") /\ ~ValidateTaskTime(last'.arg, now)) =>
          /\ last'.ret = "InvalidScheduleError"
          /\ tasks' = tasks
          /\ task' = task ]_vars

C4_OneContextPerTask ==
    \A k \in DOMAIN ghost : ghost[k].spawned <= 1

\* the lifecycle: pending, searching, booking, then completed or failed;
\* cancelled from a non-terminal status
Lifecycle ==
    { << "pending", "searching" >>, << "searching", "booking" >>,
      << "booking", "completed" >>, << "booking", "failed" >> }
    \cup { << st, "cancelled" >> : st \in {"pending", "searching", "booking"} }

\* C5: every change of a task's status follows the lifecycle order: never
\* completed or failed without booking before, never backwards
C5_LifecycleOrder ==
    [][ \A k \in DOMAIN task :
          task'[k].status # task[k].status =>
             << task[k].status, task'[k].status >> \in Lifecycle ]_vars

\* C6: after cancel_task returned True for a task in booking, at most the
\* Agent stage in flight returns for that task; no later stage is invoked
C6_NoStageAfterCancel ==
    \A k \in DOMAIN ghost : ghost[k].stages_after_cancel <= 1

\* C7: cancel_task with an identifier that names a non-terminal task of the
\* collection returns True and a non-terminal task it names becomes cancelled
C7_CancelFindsNonTerminal ==
    [][ \A id \in Identifiers :
          LET live == { k \in Matching(id) : task[k].status \in NonTerminal }
          IN  (Returns("cancel_task") /\ last'.arg = id /\ live # {}) =>
                 /\ last'.ret = TRUE
                 /\ \E k \in live : task'[k].status = "cancelled" ]_vars

\* C8: cancel_task with an identifier that names only completed, failed or
\* cancelled tasks, or no task, returns False and leaves every task's
\* status, the collection and active_tasks as they are
C8_CancelIdempotent ==
    [][ \A id \in Identifiers :
          (/\ Returns("cancel_task")
           /\ last'.arg = id
           /\ \A k \in Matching(id) : task[k].status \in Terminal) =>
             /\ last'.ret = FALSE
             /\ task' = task
             /\ tasks' = tasks
             /\ active_tasks' = active_tasks ]_vars

\* C8: cancel_task has returned False for a task that completed
C8_Witness ==
    /\ last.op = "cancel_task"
    /\ last.ret = FALSE
    /\ \E k \in Matching(last.arg) : task[k].status = "completed"

\* C9: when stop_scheduler returns on a scheduler that was running, every
\* task of the collection is terminal, every context has ended or is
\* leaving, and get_statistics reports no active task
C9_StopCancelsAll ==
    [][ (Returns("stop_scheduler") /\ caller = "joining") =>
          /\ \A i \in 1..Len(tasks') : task'[tasks'[i]].status \in Terminal
          /\ \A c \in DOMAIN contexts' : contexts'[c].pc \in {"finally", "done"}
          /\ GetStatistics'.active_tasks = 0 ]_vars

\* C10: an attempt that succeeds completes the task with result "success" and
\* invokes status_callback in that step, the only invocation for the task;
\* no attempt starts for a task whose callback was invoked
C10_SuccessReportedOnce ==
    [][ \A c \in DOMAIN contexts :
          LET k == contexts[c].task
          IN  /\ (contexts[c].pc = "after" /\ contexts[c].success
                    /\ contexts'[c] # contexts[c]) =>
                     /\ task'[k].status = "completed"
                     /\ task'[k].result = "success"
                     /\ ghost'[k].status_cb = 1
                     /\ contexts'[c].pc \notin {"stage", "research"}
              /\ (contexts[c].pc = "loop" /\ contexts'[c].pc = "stage") =>
                     ghost[k].status_cb = 0 ]_vars

\* C11: retry_count equals the number of auto_book_ticket calls started for the
\* task and never exceeds max_retries
C11_RetryCountIsAttempts ==
    \A k \in DOMAIN task :
       /\ task[k].retry_count = ghost[k].attempts
       /\ task[k].retry_count <= task[k].max_retries

\* C12: a task whose context has ended and whose k-th attempt was the one
\* that succeeded (the k - 1 before it returned failure) is completed with
\* retry_count = k
C12_SuccessOnAttemptK ==
    \A c \in DOMAIN contexts :
       LET k == contexts[c].task
       IN  (contexts[c].pc = "done" /\ ghost[k].status_cb = 1) =>
              /\ task[k].status = "completed"
              /\ task[k].retry_count = ghost[k].attempts

\* C13: an attempt that failed with an error of a category should_retry
\* refuses sets the task to failed and is followed by no re-validation and
\* no further attempt
C13_NoRetryCategories ==
    [][ \A c \in DOMAIN contexts :
          LET k == contexts[c].task
          IN  (/\ contexts[c].pc = "after"
               /\ ~contexts[c].success
               /\ contexts'[c].pc # "after"
               /\ auto_booking.status = "FAILED"
               /\ \A n \in 0..task[k].max_retries :
                     ~ShouldRetry(AnalyzeError(auto_booking.error_message), n)) =>
                 /\ task'[k].status = "failed"
                 /\ contexts'[c].pc \notin {"research", "stage"} ]_vars

\* the range of the wait after attempt n, in milliseconds
WaitRange(n) ==
    IF n = 1 THEN 100..300 ELSE IF n = 2 THEN 200..500 ELSE 500..1000

C15_NeverFiresEarly ==
    \A k \in DOMAIN task :
       (task[k].status = "booking" \/ task[k].booking_attempted \/ ghost[k].attempts > 0) =>
          now >= task[k].start_time

\* C15: a task that went through pre-warm is in booking at its start_time,
\* its first attempt started
C15_Witness ==
    \E k \in DOMAIN task :
       /\ ghost[k].prewarmed
       /\ task[k].status = "booking"
       /\ ghost[k].attempts = 1
       /\ now = task[k].start_time

\* C16: every promotion of a task happens at a time >= start_time minus the
\* lead, and on a task that was not promoted before
C16_PromotedOnceWhenDue ==
    [][ \A k \in DOMAIN task :
          ghost'[k].spawned # ghost[k].spawned =>
             /\ now >= task[k].start_time - Lead
             /\ ~task[k].search_started
             /\ ghost[k].spawned = 0
             /\ task'[k].search_started ]_vars

\* C17: a task that is in pre-warm when its start_time arrives enters booking
\* before the clock reaches the next second (the tolerance is 50 ms)
C17_FiresOnTime ==
    [][ \A k \in DOMAIN task :
          (/\ ghost[k].prewarmed
           /\ task[k].status = "searching"
           /\ task'[k].status = "booking") =>
             now - task[k].start_time < 1 ]_vars

\* C18: error_callback has been invoked exactly once for every failed task,
\* and never twice for a task
C18_FailureReportedOnce ==
    \A k \in DOMAIN task :
       /\ task[k].status = "failed" => ghost[k].error_cb = 1
       /\ ghost[k].error_cb <= 1

\* C19: every change of a task's status invokes status_callback
C19_StatusCallbackOnTransition ==
    [][ \A k \in DOMAIN task :
          task'[k].status # task[k].status =>
             ghost'[k].status_cb = ghost[k].status_cb + 1 ]_vars

\* the texts of the exceptions that reach the except clauses of a context
ExceptionTexts == { "callback error", "callback error (outer)" }

\* C20: a context that leaves through an except clause leaves the task failed
\* with the text of the exception; every context that ends has released its
\* active_tasks entry; no step of a context stops the timing loop
C20_ContextExitReleases ==
    [][ \A c \in DOMAIN contexts :
          LET k == contexts[c].task
          IN  /\ (contexts[c].pc = "except" /\ contexts'[c].pc = "finally") =>
                    /\ task'[k].status = "failed"
                    /\ task'[k].error_message \in ExceptionTexts
              /\ (contexts[c].pc # "done" /\ contexts'[c].pc = "done") =>
                    /\ contexts[c].pc = "finally"
                    /\ k \notin active_tasks'
              /\ contexts'[c] # contexts[c] =>
                    (last' # last \/ (workers' = workers /\ running' = running)) ]_vars

\* C20: a context has ended after the exception of a callback left its
\* except clause; the task is failed with that text and has no active entry
C20_Witness ==
    \E c \in DOMAIN contexts :
       /\ contexts[c].pc = "done"
       /\ task[contexts[c].task].status = "failed"
       /\ task[contexts[c].task].error_message = "callback error (outer)"
       /\ contexts[c].task \notin active_tasks

\* C22: every failed task has a non-empty error_message
C22_FailedHasMessage ==
    \A k \in DOMAIN task :
       task[k].status = "failed" => task[k].error_message # ""

\* C24: no task exists, and so none is promoted, for a TicketInfo whose
\* ticket_passengers list is empty
C24_EmptyRequestRejected ==
    \A k \in DOMAIN task :
       LET ticket_info == TicketInfo(task[k].train_number,
                                     TicketPassengers[task[k].train_number])
       IN  ticket_info.ticket_passengers # << >>

\* C28: an attempt that is not the first of its task starts after exactly one
\* search_tickets call made for the task since the attempt before it started
C28_RevalidatedOnce ==
    [][ \A k \in DOMAIN task :
          (ghost[k].attempts >= 1 /\ ghost'[k].attempts = ghost[k].attempts + 1) =>
             ghost[k].revalidated = 1 ]_vars

\* the distance of the refreshes of the pre-warm loop while time_remaining
\* seconds remain
Cadence(time_remaining) ==
    IF time_remaining > 120 THEN 30 ELSE IF time_remaining > 60 THEN 15 ELSE 5

\* C29: a refresh of the pre-warm loop made while more than 10 s remain comes
\* at least the distance of its tier after the refresh before it
C29_TieredCadence ==
    [][ \A k \in DOMAIN task :
          (/\ ghost'[k].refresh_odd # ghost[k].refresh_odd
           /\ ghost[k].refresh_at >= 0
           /\ task[k].start_time - now > 10) =>
             now - ghost[k].refresh_at >= Cadence(task[k].start_time - now) ]_vars

\* C30: no refresh of the pre-warm loop is made when 10 s or less remain
C30_NoRefreshInCountdown ==
    [][ \A k \in DOMAIN task :
          ghost'[k].refresh_odd # ghost[k].refresh_odd =>
             task[k].start_time - now > 10 ]_vars

\* a context whose thread has not ended
Live(c) == contexts[c].pc # "done"

\* C21: the state of the Agent's session changes only while the live
\* contexts are all of one task, so no call made for one task and no
\* cancel_booking touches the session another live task is using
C21_SessionPerTask ==
    [][ auto_booking' # auto_booking =>
          \A c1, c2 \in DOMAIN contexts :
             (Live(c1) /\ Live(c2)) => contexts[c1].task = contexts[c2].task ]_vars

\* C23: whenever no add_task call is under way, the collection is ordered by
\* priority descending and, among equal priorities, by start_time ascending
C23_CollectionSorted ==
    caller # "add_task" =>
       \A i, j \in 1..Len(tasks) :
          i < j => ~SortKeyLess(task, tasks[j], tasks[i])

\* the scheduler runs and task k is inside the lead or past its start_time
InsideLead(k) ==
    IF k \in DOMAIN task THEN running /\ now >= task[k].start_time - Lead ELSE FALSE

\* the pipeline of task k has run to its end
Ended(k) ==
    IF k \in DOMAIN task THEN task[k].status \in {"completed", "failed"} ELSE FALSE

\* C25: a context that starts at or after start_time goes to the final wait
\* without the pre-warm phase and without a change of the task; a failed task
\* has had an attempt or a pre-warm phase; and a task that is inside the lead
\* or past start_time while the scheduler runs reaches completed or failed
C25_DegeneratePath ==
    /\ [][ \A c \in DOMAIN contexts :
             LET k == contexts[c].task
             IN  (/\ contexts[c].pc = "begin"
                  /\ contexts'[c].pc # "begin"
                  /\ now >= task[k].start_time) =>
                    /\ contexts'[c].pc = "check"
                    /\ task'[k] = task[k]
                    /\ ~ghost'[k].prewarmed ]_vars
    /\ [](\A k \in DOMAIN task :
            task[k].status = "failed" => (ghost[k].attempts > 0 \/ ghost[k].prewarmed))
    /\ \A k \in {Iso(1)} : InsideLead(k) ~> Ended(k)

\* the record _log_error wrote for the last handle_error call
LastError == handler.error_history[Len(handler.error_history)]

\* C26: the message "session expired, please login", and every message that
\* contains a keyword of the authentication list and none of the network
\* list, is classified LOGIN_ERROR, and the action returned for it when no
\* callback decides is MANUAL_BOOKING
C26_AuthenticationClassified ==
    handler.error_history # << >> =>
       LET message == handler.returned.error
           error_message == LowerMessage(message)
       IN  (\/ message = "session expired, please login"
            \/ /\ AnyKeyword(error_message, KeywordTable[2].keywords)
               /\ ~AnyKeyword(error_message, KeywordTable[1].keywords)) =>
              /\ LastError.error_type = "LOGIN_ERROR"
              /\ handler.returned.callback # "returned" =>
                    handler.returned.choice = "MANUAL_BOOKING"

\* C26: handle_error has returned MANUAL_BOOKING for the message "session
\* expired, please login" with no callback set
C26_Witness ==
    /\ handler.returned.error = "session expired, please login"
    /\ handler.returned.callback = "absent"
    /\ handler.returned.choice = "MANUAL_BOOKING"

\* C27: handle_error returns a UserChoice: the callback's answer when the
\* callback is set and returns, the entry of the default table for the
\* category when the callback is absent or raises
C27_DecisionFunction ==
    handler.error_history # << >> =>
       /\ handler.returned.choice \in UserChoices
       /\ handler.returned.callback = "returned" =>
             handler.returned.choice = handler.returned.answer
       /\ handler.returned.callback \in {"absent", "raised"} =>
             handler.returned.choice = DefaultStrategies[LastError.error_type]

\* C27: handle_error has returned the default action after its callback raised,
\* and the callback's own answer after it returned one that is not the default
C27_Witness ==
    /\ Len(handler.error_history) = 2
    /\ handler.returned.callback = "raised"
    /\ handler.returned.choice = DefaultStrategies[LastError.error_type]
    /\ handler.user_callback = "set"

CategoryOrder ==
    << "NETWORK_ERROR", "LOGIN_ERROR", "CAPTCHA_ERROR", "NO_TICKET_ERROR",
       "SEAT_ERROR", "PASSENGER_ERROR", "SUBMIT_ERROR", "PAYMENT_ERROR",
       "SYSTEM_ERROR" >>

\* a keyword of the i-th list is contained in the lower-cased message
Hit(i, message) == AnyKeyword(LowerMessage(message), KeywordTable[i].keywords)

\* C32: every handled message has got exactly one category: the i-th of the
\* fixed order exactly when the i-th keyword list is the first with a keyword
\* contained in the lower-cased message, UNKNOWN_ERROR exactly when no list
\* has one; and the same message has got the same category every time
C32_ClassifierFirstMatch ==
    \A n \in DOMAIN handler.error_history :
       LET rec == handler.error_history[n]
       IN  /\ Len(KeywordTable) = Len(CategoryOrder)
           /\ \A i \in DOMAIN CategoryOrder :
                /\ KeywordTable[i].type = CategoryOrder[i]
                /\ rec.error_type = CategoryOrder[i] <=>
                      /\ Hit(i, rec.error_message)
                      /\ \A j \in 1..(i - 1) : ~Hit(j, rec.error_message)
           /\ rec.error_type = "UNKNOWN_ERROR" <=>
                 \A i \in DOMAIN CategoryOrder : ~Hit(i, rec.error_message)
           /\ \A m \in DOMAIN handler.error_history :
                 handler.error_history[m].error_message = rec.error_message =>
                    handler.error_history[m].error_type = rec.error_type

\* C32: a message with keywords of two lists has got the category of the
\* first, and a message with no keyword has got UNKNOWN_ERROR
C32_Witness ==
    /\ Len(handler.error_history) = 2
    /\ handler.error_history[1] =
          [ error_type |-> "LOGIN_ERROR", error_message |-> "Invalid username" ]
    /\ Hit(6, "Invalid username")
    /\ handler.error_history[2] =
          [ error_type |-> "UNKNOWN_ERROR", error_message |-> "Element not found" ]

\* C33: the list _cleanup_tasks builds keeps every task of the collection
\* that is pending, searching or booking, and every completed or failed task
\* for 24 hours from the time it became completed or failed
C33_TerminalRetained ==
    [][ \A w \in DOMAIN workers :
          (workers[w].pc = "cleanup" /\ workers'[w].pc = "assign") =>
             \A i \in DOMAIN tasks :
                LET k == tasks[i]
                IN  (\/ task[k].status \in {"pending", "searching", "booking"}
                     \/ /\ task[k].status \in {"completed", "failed"}
                        /\ now <= ghost[k].ended_at + Retention) =>
                       \E j \in DOMAIN workers'[w].kept : workers'[w].kept[j] = k ]_vars

\* C34: a pre-warm login that fails leaves the task failed with an error
\* message; while the task carries that message it does not become booking
\* and no context of it calls select, assign, submit or confirm
C34_PreWarmLoginFatal ==
    [][ \A c \in DOMAIN contexts :
          LET k == contexts[c].task
          IN  /\ (contexts[c].pc = "login" /\ contexts'[c].pc = "finally") =>
                    /\ task'[k].status = "failed"
                    /\ task'[k].error_message # ""
              /\ task[k].error_message = "prewarm login failed" =>
                    /\ ~(task[k].status # "booking" /\ task'[k].status = "booking")
                    /\ ~(/\ contexts[c].pc = "stage"
                         /\ contexts[c].stage >= 3
                         /\ contexts'[c] # contexts[c]) ]_vars

\* C35: when cancel_all_tasks is the last call that returned, no task of the
\* collection is pending, searching, booking or running
C35_CancelAllCancels ==
    last.op = "cancel_all_tasks" =>
       \A k \in DOMAIN task :
          InCollection(k) =>
             task[k].status \notin {"pending", "searching", "booking", "running"}

\* C36: at most one _worker_loop thread is alive
C36_OneTimingLoop ==
    Cardinality({ w \in DOMAIN workers : workers[w].pc # "dead" }) <= 1

\* C37: from_dict(to_dict(t)) has the ticket_info, start_time,
\* pre_search_start_time, max_retries, priority, created_at, status,
\* error_message, retry_count, result, search_started and booking_attempted
\* of t, for every task t
C37_RoundTrip ==
    \A k \in DOMAIN task : FromDict(ToDict(TaskObject(k))) = TaskObject(k)

\* C37: a failed task of two passengers, one of them with a bunk, that was
\* created at one time and restored from its record at a later one
C37_Witness ==
    \E k \in DOMAIN task :
       /\ task[k].status = "failed" /\ task[k].error_message # ""
       /\ task[k].search_started /\ task[k].booking_attempted
       /\ task[k].retry_count = MaxRetries
       /\ now > task[k].created_time
       /\ Len(TaskObject(k).ticket_info.ticket_passengers) = 2
       /\ "bunk_type" \in DOMAIN ToDict(TaskObject(k)).ticket_info.passengers[2]
       /\ "bunk_type" \notin DOMAIN ToDict(TaskObject(k)).ticket_info.passengers[1]
       /\ FromDict(ToDict(TaskObject(k))) = TaskObject(k)

\* C38: a task leaves the collection only in a remove_task call for its id
\* that returns True, or as a completed or failed task created more than 24
\* hours before
C38_NoTaskLost ==
    [][ \A k \in DOMAIN task :
          (InCollection(k) /\ ~InCollection(k)') =>
             \/ /\ last'.n = last.n + 1
                /\ last'.op = "remove_task" /\ last'.arg = k /\ last'.ret = TRUE
             \/ /\ task[k].status \in {"completed", "failed"}
                /\ task[k].created_time < now - Retention ]_vars

\* C39: a task that is booking has a context that has not ended
C39_BookingHasContext ==
    \A k \in DOMAIN task :
       task[k].status = "booking" =>
          \E c \in DOMAIN contexts : contexts[c].task = k /\ contexts[c].pc # "done"

\* remove_task(k) is the last call that returned, it returned True, and the
\* task is out of the collection
Removed(k) ==
    /\ last.op = "remove_task" /\ last.arg = k /\ last.ret = TRUE
    /\ ~InCollection(k)

\* C40: a remove_task call that returns True for a searching or booking task
\* with a live context leaves no entry of the task in active_tasks; and from
\* then on that context makes no Agent call and the task does not become
\* booking, completed or failed
C40_RemoveStopsContext ==
    [][ \A c \in DOMAIN contexts :
          LET k == contexts[c].task
          IN  /\ (/\ contexts[c].pc # "done"
                  /\ task[k].status \in {"searching", "booking"}
                  /\ ~Removed(k) /\ Removed(k)') => k \notin active_tasks'
              /\ (contexts[c].pc # "done" /\ Removed(k)) =>
                    /\ task'[k].status \in {"booking", "completed", "failed"} =>
                          task'[k].status = task[k].status
                    /\ contexts[c].pc \in {"login", "presearch", "final_search",
                                            "stage", "research"} =>
                          contexts'[c] = contexts[c] ]_vars

====
